---- MODULE Spec2Model ----
(***************************************************************************)
(* A model of scapper.py: an interactive terminal frame scrubber.          *)
(*                                                                         *)
(* The script runs top to bottom in one thread.  pc is the position of     *)
(* that thread; every blocking call to an external program (ffprobe,       *)
(* ffmpeg, viu) or to the terminal is one step whose outcome is chosen     *)
(* nondeterministically among the outcomes the call can have.              *)
(*                                                                         *)
(* Numbers.  duration is in whole seconds.  framerate is the rational      *)
(* <<num, den>> with den > 0.  Times of the Seeked strategy (current_time, *)
(* frame_duration, frame) are counted in ticks of 1/TimeDen(framerate)     *)
(* seconds, the least unit in which both 1/framerate and 0.25 s are whole  *)
(* numbers, so the arithmetic of the loop is exact.  A file name           *)
(* "frame_<t:.3f>.png" is represented by the integer its digits spell,     *)
(* i.e. t rounded to milliseconds the way the format rounds.               *)
(***************************************************************************)
EXTENDS Integers, Sequences, FiniteSets, TLC

\* ------------------------------------------------------------------ bounds
\* number of keystrokes (loop iterations that read a key) in one session
MaxKeys == 5
\* number of frames the user saves in one session
MaxSaves == 2

\* ------------------------------------------------------- program constants
\* line 109: videos of at most this many seconds are extracted in bulk
ShortLimit == 120
\* lines 36, 44: the default frame rate
DefaultRate == 30
\* lines 135, 170-173: an arrow key moves 0.25 s = 1/JumpDen s
JumpDen == 4
\* lines 82, 86: "{timestamp:.3f}" keeps 1000ths of a second
Millis == 1000

\* ------------------------------------------------------------------ inputs
\* what ffprobe reports as the duration (seconds): the longest video of the
\* Indexed strategy and the shortest whole-second one of the Seeked strategy
Durations == {120, 121}
\* how many frames survive the bulk extraction
FrameCounts == {0, 1, 3, 900}
\* what the frame-rate probe prints (or that it could not be run)
ProbeOutputs ==
    { [kind |-> "error",   num |-> 0,  den |-> 1],
      [kind |-> "empty",   num |-> 0,  den |-> 1],
      [kind |-> "garbage", num |-> 0,  den |-> 1],
      [kind |-> "ratio",   num |-> 30, den |-> 1],
      [kind |-> "ratio",   num |-> 30, den |-> 0],
      [kind |-> "ratio",   num |-> 1,  den |-> 120],
      [kind |-> "ratio",   num |-> 0,  den |-> 1],
      [kind |-> "ratio",   num |-> 1,  den |-> -120],
      [kind |-> "plain",   num |-> 30, den |-> 1] }
\* the bytes the terminal can deliver to one read
Bytes == {"q", "s", ".", ",", "ESC", "[", "C", "D", "A"}

\* ----------------------------------------------------------- arithmetic
Abs(x) == IF x < 0 THEN -x ELSE x

Max(a, b) == IF a >= b THEN a ELSE b

Min(a, b) == IF a <= b THEN a ELSE b

\* int(n/d) of Python: truncation towards zero (d > 0)
Trunc(n, d) == IF n >= 0 THEN n \div d ELSE -((-n) \div d)

\* round(n/d) of Python and of "%.3f": to nearest, ties to even (n >= 0, d > 0)
RoundHalfEvenNat(n, d) ==
    LET q == n \div d
        r == n % d
    IN  IF 2 * r < d THEN q
        ELSE IF 2 * r > d THEN q + 1
        ELSE IF q % 2 = 0 THEN q ELSE q + 1

RoundHalfEven(n, d) ==
    IF n >= 0 THEN RoundHalfEvenNat(n, d) ELSE -RoundHalfEvenNat(-n, d)

\* ------------------------------------------------------- pure functions
\* get_framerate applied to what the probe printed: "N/D" is N/D (a zero D
\* raises ZeroDivisionError inside the outer try), a plain number is itself,
\* everything else is the default
get_framerate(out) ==
    IF out.kind = "ratio" /\ out.den # 0
    THEN IF out.den < 0 THEN <<-out.num, -out.den>> ELSE <<out.num, out.den>>
    ELSE IF out.kind = "plain"
    THEN <<out.num, out.den>>
    ELSE <<DefaultRate, 1>>

\* frames_to_move with the product rounded instead of truncated
frames_to_move_Rounded(fr) == Max(1, RoundHalfEven(fr[1], JumpDen * fr[2]))

\* line 135: max(1, int(framerate * 0.25))
frames_to_move(fr) == Max(1, Trunc(fr[1], JumpDen * fr[2]))

\* ticks per second of a Seeked session with frame rate fr (fr # 0)
TimeDen(fr) == JumpDen * Abs(fr[1])

\* line 148: 1/framerate, in ticks
FrameDuration(fr) == IF fr[1] > 0 THEN JumpDen * fr[2] ELSE -(JumpDen * fr[2])

\* 0.25 s, in ticks
JumpTicks(fr) == TimeDen(fr) \div JumpDen

\* lines 82, 86: the name "frame_<n/d:.3f>.png", as the integer n/d * 1000
\* rounded the way the format rounds
Filename(n, d) == RoundHalfEven(n * Millis, d)

\* DecodeEscape without the test of line 134 / 168 on the first byte
DecodeEscape_AnyFirst(n1, n2) ==
    IF n2 = "C" THEN "JumpForward"
    ELSE IF n2 = "D" THEN "JumpBack"
    ELSE "Ignored"

\* lines 134-139 and 168-173: the two bytes that follow ESC
DecodeEscape(n1, n2) ==
    IF n1 = "[" /\ n2 = "C" THEN "JumpForward"
    ELSE IF n1 = "[" /\ n2 = "D" THEN "JumpBack"
    ELSE "Ignored"

\* StepForward without the test of line 127
IndexedStepForward_Unguarded(cf, total) == cf + 1

\* lines 126-128
IndexedStepForward(cf, total) == IF cf < total - 1 THEN cf + 1 ELSE cf

\* line 130
IndexedStepBack(cf) == Max(0, cf - 1)

\* IndexedJumpForward without the min of line 137
IndexedJumpForward_Unclamped(cf, total, fr) == cf + frames_to_move(fr)

\* line 137
IndexedJumpForward(cf, total, fr) == Min(total - 1, cf + frames_to_move(fr))

\* line 139
IndexedJumpBack(cf, fr) == Max(0, cf - frames_to_move(fr))

\* SeekedForward with <= for the < of lines 161 and 170
SeekedForward_Inclusive(ct, delta, dur) ==
    IF ct + delta <= dur THEN ct + delta ELSE ct

\* SeekedForward that clamps the target to [0, dur] instead of testing it
SeekedForward_Clamped(ct, delta, dur) == Min(dur, Max(0, ct + delta))

\* lines 161-162 and 170-171
SeekedForward(ct, delta, dur) == IF ct + delta < dur THEN ct + delta ELSE ct

\* lines 164 and 173
SeekedBack(ct, delta) == Max(0, ct - delta)

\* save_frame that puts the new name at the head of the list
save_frame_Prepend(fs, sf, frame_data, n, d) ==
    LET filename == Filename(n, d)
    IN  [files |-> {f \in fs : f.name # filename}
                     \cup {[name |-> filename, data |-> frame_data]},
         saved_frames |-> <<filename>> \o sf]

\* save_frame that numbers the names so that no save replaces a file
save_frame_Numbered(fs, sf, frame_data, n, d) ==
    LET filename == Filename(n, d) + Len(sf)
    IN  [files |-> {f \in fs : f.name # filename}
                     \cup {[name |-> filename, data |-> frame_data]},
         saved_frames |-> Append(sf, filename)]

\* save_frame without the append of line 88
save_frame_NoAppend(fs, sf, frame_data, n, d) ==
    LET filename == Filename(n, d)
    IN  [files |-> {f \in fs : f.name # filename}
                     \cup {[name |-> filename, data |-> frame_data]},
         saved_frames |-> sf]

\* lines 80-89: the working directory and the saved list after save_frame;
\* writing a name that exists replaces the file of that name
save_frame(fs, sf, frame_data, n, d) ==
    LET filename == Filename(n, d)
    IN  [files |-> {f \in fs : f.name # filename}
                     \cup {[name |-> filename, data |-> frame_data]},
         saved_frames |-> Append(sf, filename)]

\* getch without the try/finally of lines 94-98: the mode is restored only
\* when the read returns
getch_tty_NoFinally(mode, read) == IF read THEN mode ELSE "raw"

\* lines 91-99: the mode of the terminal after getch.  old_settings is the
\* mode found by tcgetattr; setraw makes it raw for the read; the finally
\* clause sets old_settings again whether the read returned or raised
getch_tty(mode, read) ==
    LET old_settings == mode
        after_read == "raw"
        after_finally == old_settings
    IN  after_finally

\* the branch with < for the <= of line 109
SelectStrategy_Strict(d) == IF d < ShortLimit THEN "extract" ELSE "seek_init"

\* lines 109 and 145: where the script goes for a duration d
SelectStrategy(d) == IF d <= ShortLimit THEN "extract" ELSE "seek_init"

\* the range check with <= for the < of line 117
InRange_Inclusive(cf, total) == 0 <= cf /\ cf <= total

\* line 117
InRange(cf, total) == 0 <= cf /\ cf < total

\* ------------------------------------------------------------------- state
VARIABLES
    pc,             \* position of the script
    duration,       \* line 107
    temp_dir,       \* line 112: "unbound" until extract_all_frames returns
    tmp_exists,     \* the directory made by mkdtemp is on disk
    all_frames,     \* line 112: frame numbers in ascending order
    total_frames,   \* line 113
    framerate,      \* lines 114, 147
    frame_duration, \* line 148
    current_frame,  \* line 18
    current_time,   \* line 146
    frame,          \* line 151: the frame extracted in this iteration
    saved_frames,   \* line 19
    files,          \* frame_*.png files in the working directory
    ch,             \* lines 121, 155: the last key read
    next1,          \* lines 132, 166
    next2,          \* lines 133, 167
    raising,        \* an exception is propagating through the try of line 110
    out_of_range,   \* "Frame index out of range" was printed
    summary,        \* what lines 175-177 printed: count, then the names
    exit_code,      \* meaningful when pc = "exit"
    nkeys,          \* history: keys read at the head of a loop (lines 121, 155)
    nreads,         \* history: calls of getch
    saveLog,        \* history: the positions at which 's' was handled, in order
    quit,           \* history: 'q' was handled
    tty,            \* mode of the terminal: "cooked" or "raw"
    nrenders,       \* history: calls of display_frame
    nextracts,      \* history: calls of get_frame
    failed_extract  \* history: a call of get_frame failed

vars == <<pc, duration, temp_dir, tmp_exists, all_frames, total_frames,
          framerate, frame_duration, current_frame, current_time, frame,
          saved_frames, files, ch, next1, next2, raising, out_of_range,
          summary,
          exit_code, nkeys, nreads, saveLog, quit, tty, nrenders, nextracts,
          failed_extract>>

\* the state set up before the loops and left alone by them
setup == <<duration, temp_dir, all_frames, total_frames, framerate,
           frame_duration>>

\* the bytes read by getch.  Every iteration assigns ch before it reads it,
\* and next1 and next2 are read only right after they are assigned, so the
\* values an iteration inherits are dead: the model forgets them at the head
\* of the loop.
keys == <<ch, next1, next2>>

\* the counters of the renders
renders == <<nrenders, nextracts, failed_extract>>

\* what the session has produced
output == <<saved_frames, files, summary, saveLog, out_of_range>>

Init ==
    /\ pc = "start"
    /\ duration = 0
    /\ temp_dir = "unbound"
    /\ tmp_exists = FALSE
    /\ all_frames = <<>>
    /\ total_frames = 0
    /\ framerate = <<0, 1>>
    /\ frame_duration = 0
    /\ current_frame = 0
    /\ current_time = 0
    /\ frame = 0
    /\ saved_frames = <<>>
    /\ files = {}
    /\ ch = ""
    /\ next1 = ""
    /\ next2 = ""
    /\ raising = FALSE
    /\ out_of_range = FALSE
    /\ summary = <<>>
    /\ exit_code = 0
    /\ nkeys = 0
    /\ nreads = 0
    /\ saveLog = <<>>
    /\ quit = FALSE
    /\ tty = "cooked"
    /\ nrenders = 0
    /\ nextracts = 0
    /\ failed_extract = FALSE

\* the process ends with the given code
Exit(code) ==
    /\ pc' = "exit"
    /\ exit_code' = code

\* ----------------------------------------------------------------- startup
\* lines 13-15
CheckArguments ==
    /\ pc = "start"
    /\ \E has_arg \in BOOLEAN :
          IF has_arg
          THEN pc' = "get_duration" /\ UNCHANGED exit_code
          ELSE Exit(1)
    /\ UNCHANGED <<setup, output, tmp_exists, current_frame, current_time,
                   frame, keys, raising, nkeys, nreads, quit>>
    /\ UNCHANGED <<tty, renders>>

\* lines 22-29, 107, and the branch of lines 109 / 145
GetDuration ==
    /\ pc = "get_duration"
    /\ \E ok \in BOOLEAN, d \in Durations :
          IF ok
          THEN /\ duration' = d
               /\ pc' = SelectStrategy(d)
               /\ UNCHANGED exit_code
          ELSE /\ Exit(1)
               /\ UNCHANGED duration
    /\ UNCHANGED <<temp_dir, all_frames, total_frames, framerate,
                   frame_duration, output, tmp_exists, current_frame,
                   current_time, frame, keys, raising, nkeys, nreads, quit>>
    /\ UNCHANGED <<tty, renders>>

\* ------------------------------------------------------ Indexed strategy
\* an exception leaves the try block of line 110 for its finally clause
Raise ==
    /\ pc' = "finally"
    /\ raising' = TRUE

\* lines 55-67, 111-113.  mkdtemp makes the directory; temp_dir and
\* all_frames are bound only when the function returns.  subprocess.run has
\* no check=True, so the handler of line 65 never runs: an OSError of run or
\* listdir, or a KeyboardInterrupt while ffmpeg works, leaves the function
\* as an exception.
ExtractAllFrames ==
    /\ pc = "extract"
    /\ \E outcome \in {"ok", "mkdtemp_raises", "run_raises"}, n \in FrameCounts :
          CASE outcome = "ok" ->
                  /\ tmp_exists' = TRUE
                  /\ temp_dir' = "tmp"
                  /\ all_frames' = [i \in 1..n |-> i - 1]
                  /\ total_frames' = Len(all_frames')
                  /\ pc' = "idx_rate"
                  /\ UNCHANGED raising
            [] outcome = "run_raises" ->
                  /\ tmp_exists' = TRUE
                  /\ Raise
                  /\ UNCHANGED <<temp_dir, all_frames, total_frames>>
            [] outcome = "mkdtemp_raises" ->
                  /\ Raise
                  /\ UNCHANGED <<tmp_exists, temp_dir, all_frames, total_frames>>
    /\ UNCHANGED <<duration, framerate, frame_duration, output, current_frame,
                   current_time, frame, keys, exit_code, nkeys, nreads, quit>>
    /\ UNCHANGED <<tty, renders>>

\* line 114
IndexedFramerate ==
    /\ pc = "idx_rate"
    /\ \E out \in ProbeOutputs : framerate' = get_framerate(out)
    /\ pc' = "idx_loop"
    /\ UNCHANGED <<duration, temp_dir, all_frames, total_frames,
                   frame_duration, output, tmp_exists, current_frame,
                   current_time, frame, keys, raising, exit_code, nkeys, nreads,
                   quit>>
    /\ UNCHANGED <<tty, renders>>

\* lines 116-119 and 140-142: the range check, then the render
IndexedRender ==
    /\ pc = "idx_loop"
    /\ ch' = "" /\ next1' = "" /\ next2' = ""
    /\ IF InRange(current_frame, total_frames)
       THEN /\ \E displayed \in BOOLEAN :
                  IF displayed
                  THEN pc' = "idx_key" /\ UNCHANGED raising
                  ELSE Raise
            /\ nrenders' = nrenders + 1
            /\ UNCHANGED out_of_range
       ELSE /\ out_of_range' = TRUE
            /\ pc' = "finally"
            /\ UNCHANGED <<raising, nrenders>>
    /\ UNCHANGED <<setup, saved_frames, files, summary, saveLog, tmp_exists,
                   current_frame, current_time, frame, exit_code,
                   nkeys, nreads, quit>>
    /\ UNCHANGED <<tty, nextracts, failed_extract>>

\* lines 121-131: one byte is read and dispatched
IndexedKey ==
    /\ pc = "idx_key"
    /\ nkeys < MaxKeys
    /\ nkeys' = nkeys + 1
    /\ nreads' = nreads + 1
    /\ UNCHANGED renders
    /\ \E read \in BOOLEAN, b \in Bytes, copied \in BOOLEAN :
          /\ tty' = getch_tty(tty, read)
          /\ (read /\ b = "s") => Len(saved_frames) < MaxSaves
          /\ ch' = IF read THEN b ELSE ch
          /\ IF ~read
             THEN /\ Raise
                  /\ UNCHANGED <<current_frame, saved_frames, files, saveLog, quit>>
             ELSE CASE b = "q" ->
                          /\ pc' = "finally"
                          /\ quit' = TRUE
                          /\ UNCHANGED <<current_frame, saved_frames, files,
                                         saveLog, raising>>
                    [] b = "s" ->
                          /\ saveLog' = Append(saveLog, current_frame)
                          /\ IF copied
                             THEN LET r == save_frame(files, saved_frames,
                                                      all_frames[current_frame + 1],
                                                      current_frame * duration,
                                                      total_frames)
                                  IN  /\ files' = r.files
                                      /\ saved_frames' = r.saved_frames
                                      /\ pc' = "idx_loop"
                                      /\ UNCHANGED raising
                             ELSE /\ Raise
                                  /\ UNCHANGED <<files, saved_frames>>
                          /\ UNCHANGED <<current_frame, quit>>
                    [] b = "." ->
                          /\ current_frame' = IndexedStepForward(current_frame, total_frames)
                          /\ pc' = "idx_loop"
                          /\ UNCHANGED <<saved_frames, files, saveLog, raising, quit>>
                    [] b = "," ->
                          /\ current_frame' = IndexedStepBack(current_frame)
                          /\ pc' = "idx_loop"
                          /\ UNCHANGED <<saved_frames, files, saveLog, raising, quit>>
                    [] b = "ESC" ->
                          /\ pc' = "idx_esc1"
                          /\ UNCHANGED <<current_frame, saved_frames, files,
                                         saveLog, raising, quit>>
                    [] OTHER ->
                          /\ pc' = "idx_loop"
                          /\ UNCHANGED <<current_frame, saved_frames, files,
                                         saveLog, raising, quit>>
    /\ UNCHANGED <<setup, summary, out_of_range, tmp_exists, current_time,
                   frame, next1, next2, exit_code>>

\* line 132
IndexedEscape1 ==
    /\ pc = "idx_esc1"
    /\ nreads' = nreads + 1
    /\ UNCHANGED renders
    /\ UNCHANGED nkeys
    /\ \E read \in BOOLEAN, b \in Bytes :
          /\ tty' = getch_tty(tty, read)
          /\ IF read
             THEN next1' = b /\ pc' = "idx_esc2" /\ UNCHANGED raising
             ELSE Raise /\ UNCHANGED next1
    /\ UNCHANGED <<setup, output, tmp_exists, current_frame, ch, next2, current_time,
                   frame, ch, next2, exit_code, quit>>

\* lines 133-139
IndexedEscape2 ==
    /\ pc = "idx_esc2"
    /\ nreads' = nreads + 1
    /\ UNCHANGED renders
    /\ UNCHANGED nkeys
    /\ \E read \in BOOLEAN, b \in Bytes :
          /\ tty' = getch_tty(tty, read)
          /\ IF read
             THEN /\ next2' = b
                  /\ current_frame' =
                        CASE DecodeEscape(next1, b) = "JumpForward" ->
                               IndexedJumpForward(current_frame, total_frames, framerate)
                          [] DecodeEscape(next1, b) = "JumpBack" ->
                               IndexedJumpBack(current_frame, framerate)
                          [] OTHER -> current_frame
                  /\ pc' = "idx_loop"
                  /\ UNCHANGED raising
             ELSE Raise /\ UNCHANGED <<current_frame, next2>>
    /\ UNCHANGED <<setup, output, tmp_exists, current_time, frame, ch, next1,
                   exit_code, quit>>

\* Finally without the rmtree of line 144
Finally_NoRmtree ==
    /\ pc = "finally"
    /\ IF raising
       THEN Exit(1)
       ELSE pc' = "report" /\ UNCHANGED exit_code
    /\ UNCHANGED <<setup, output, tmp_exists, current_frame, current_time,
                   frame, keys, raising, nkeys, nreads, quit>>
    /\ UNCHANGED <<tty, renders>>

\* lines 143-144: shutil.rmtree(temp_dir); an unbound temp_dir is a NameError
\* that replaces whatever was propagating
Finally ==
    /\ pc = "finally"
    /\ IF temp_dir = "unbound"
       THEN /\ Exit(1)
            /\ UNCHANGED tmp_exists
       ELSE /\ tmp_exists' = FALSE
            /\ IF raising
               THEN Exit(1)
               ELSE pc' = "report" /\ UNCHANGED exit_code
    /\ UNCHANGED <<setup, output, current_frame, current_time, frame, keys,
                   raising, nkeys, nreads, quit>>
    /\ UNCHANGED <<tty, renders>>

\* lines 175-177, then the end of the script
Report ==
    /\ pc = "report"
    /\ summary' = <<Len(saved_frames)>> \o saved_frames
    /\ Exit(0)
    /\ UNCHANGED <<setup, saved_frames, files, saveLog, out_of_range,
                   tmp_exists, current_frame, current_time, frame, keys,
                   raising, nkeys, nreads, quit>>
    /\ UNCHANGED <<tty, renders>>

\* ------------------------------------------------------- Seeked strategy
\* duration, in the ticks of the session
DurationTicks == duration * TimeDen(framerate)

\* lines 146-148; 1/framerate raises ZeroDivisionError for a zero rate
SeekedInit ==
    /\ pc = "seek_init"
    /\ current_time' = 0
    /\ \E out \in ProbeOutputs :
          /\ framerate' = get_framerate(out)
          /\ IF framerate'[1] = 0
             THEN /\ Exit(1)
                  /\ UNCHANGED frame_duration
             ELSE /\ frame_duration' = FrameDuration(framerate')
                  /\ pc' = "seek_loop"
                  /\ UNCHANGED exit_code
    /\ UNCHANGED <<duration, temp_dir, all_frames, total_frames, output,
                   tmp_exists, current_frame, frame, keys, raising, nkeys, nreads,
                   quit>>
    /\ UNCHANGED <<tty, renders>>

\* SeekedRender that keeps the frame extracted on the first iteration
SeekedRender_StaleFrame ==
    /\ pc = "seek_loop"
    /\ ch' = "" /\ next1' = "" /\ next2' = ""
    /\ nextracts' = nextracts + 1
    /\ \E outcome \in {"ok", "extract_fails", "display_raises"} :
          CASE outcome = "ok" ->
                  /\ frame' = IF nextracts = 0 THEN current_time ELSE frame
                  /\ nrenders' = nrenders + 1
                  /\ pc' = "seek_key"
                  /\ UNCHANGED <<exit_code, failed_extract>>
            [] outcome = "extract_fails" ->
                  /\ failed_extract' = TRUE
                  /\ Exit(1)
                  /\ UNCHANGED <<frame, nrenders>>
            [] outcome = "display_raises" ->
                  /\ frame' = IF nextracts = 0 THEN current_time ELSE frame
                  /\ nrenders' = nrenders + 1
                  /\ Exit(1)
                  /\ UNCHANGED failed_extract
    /\ UNCHANGED <<setup, output, tmp_exists, current_frame, current_time,
                   raising, nkeys, nreads, quit>>
    /\ UNCHANGED tty

\* SeekedRender that extracts and renders only when the timestamp is not
\* the one of the frame it holds
SeekedRender_SkipUnchanged ==
    /\ pc = "seek_loop"
    /\ ch' = "" /\ next1' = "" /\ next2' = ""
    /\ IF nextracts > 0 /\ frame = current_time
       THEN /\ pc' = "seek_key"
            /\ UNCHANGED <<frame, exit_code, renders>>
       ELSE /\ nextracts' = nextracts + 1
            /\ \E outcome \in {"ok", "extract_fails", "display_raises"} :
                  CASE outcome = "ok" ->
                          /\ frame' = current_time
                          /\ nrenders' = nrenders + 1
                          /\ pc' = "seek_key"
                          /\ UNCHANGED <<exit_code, failed_extract>>
                    [] outcome = "extract_fails" ->
                          /\ failed_extract' = TRUE
                          /\ Exit(1)
                          /\ UNCHANGED <<frame, nrenders>>
                    [] outcome = "display_raises" ->
                          /\ frame' = current_time
                          /\ nrenders' = nrenders + 1
                          /\ Exit(1)
                          /\ UNCHANGED failed_extract
    /\ UNCHANGED <<setup, output, tmp_exists, current_frame, current_time,
                   raising, nkeys, nreads, quit>>
    /\ UNCHANGED tty

\* SeekedRender with a get_frame that reports the failure of ffmpeg and
\* returns nothing instead of calling sys.exit
SeekedRender_Continue ==
    /\ pc = "seek_loop"
    /\ ch' = "" /\ next1' = "" /\ next2' = ""
    /\ nextracts' = nextracts + 1
    /\ \E outcome \in {"ok", "extract_fails", "display_raises"} :
          CASE outcome = "ok" ->
                  /\ frame' = current_time
                  /\ nrenders' = nrenders + 1
                  /\ pc' = "seek_key"
                  /\ UNCHANGED <<exit_code, failed_extract>>
            [] outcome = "extract_fails" ->
                  /\ failed_extract' = TRUE
                  /\ nrenders' = nrenders + 1
                  /\ pc' = "seek_key"
                  /\ UNCHANGED <<frame, exit_code>>
            [] outcome = "display_raises" ->
                  /\ frame' = current_time
                  /\ nrenders' = nrenders + 1
                  /\ Exit(1)
                  /\ UNCHANGED failed_extract
    /\ UNCHANGED <<setup, output, tmp_exists, current_frame, current_time,
                   raising, nkeys, nreads, quit>>
    /\ UNCHANGED tty

\* lines 150-153: get_frame exits when ffmpeg fails; display_frame may raise
SeekedRender ==
    /\ pc = "seek_loop"
    /\ ch' = "" /\ next1' = "" /\ next2' = ""
    /\ nextracts' = nextracts + 1
    /\ \E outcome \in {"ok", "extract_fails", "display_raises"} :
          CASE outcome = "ok" ->
                  /\ frame' = current_time
                  /\ nrenders' = nrenders + 1
                  /\ pc' = "seek_key"
                  /\ UNCHANGED <<exit_code, failed_extract>>
            [] outcome = "extract_fails" ->
                  /\ failed_extract' = TRUE
                  /\ Exit(1)
                  /\ UNCHANGED <<frame, nrenders>>
            [] outcome = "display_raises" ->
                  /\ frame' = current_time
                  /\ nrenders' = nrenders + 1
                  /\ Exit(1)
                  /\ UNCHANGED failed_extract
    /\ UNCHANGED <<setup, output, tmp_exists, current_frame, current_time,
                   raising, nkeys, nreads, quit>>
    /\ UNCHANGED tty

\* lines 155-165: one byte is read and dispatched
SeekedKey ==
    /\ pc = "seek_key"
    /\ nkeys < MaxKeys
    /\ nkeys' = nkeys + 1
    /\ nreads' = nreads + 1
    /\ UNCHANGED renders
    /\ \E read \in BOOLEAN, b \in Bytes, written \in BOOLEAN :
          /\ tty' = getch_tty(tty, read)
          /\ (read /\ b = "s") => Len(saved_frames) < MaxSaves
          /\ ch' = IF read THEN b ELSE ch
          /\ IF ~read
             THEN /\ Exit(1)
                  /\ UNCHANGED <<current_time, saved_frames, files, saveLog, quit>>
             ELSE CASE b = "q" ->
                          /\ pc' = "report"
                          /\ quit' = TRUE
                          /\ UNCHANGED <<current_time, saved_frames, files,
                                         saveLog, exit_code>>
                    [] b = "s" ->
                          /\ saveLog' = Append(saveLog, current_time)
                          /\ IF written
                             THEN LET r == save_frame(files, saved_frames, frame,
                                                      current_time,
                                                      TimeDen(framerate))
                                  IN  /\ files' = r.files
                                      /\ saved_frames' = r.saved_frames
                                      /\ pc' = "seek_loop"
                                      /\ UNCHANGED exit_code
                             ELSE /\ Exit(1)
                                  /\ UNCHANGED <<files, saved_frames>>
                          /\ UNCHANGED <<current_time, quit>>
                    [] b = "." ->
                          /\ current_time' = SeekedForward(current_time,
                                                 frame_duration, DurationTicks)
                          /\ pc' = "seek_loop"
                          /\ UNCHANGED <<saved_frames, files, saveLog,
                                         exit_code, quit>>
                    [] b = "," ->
                          /\ current_time' = SeekedBack(current_time, frame_duration)
                          /\ pc' = "seek_loop"
                          /\ UNCHANGED <<saved_frames, files, saveLog,
                                         exit_code, quit>>
                    [] b = "ESC" ->
                          /\ pc' = "seek_esc1"
                          /\ UNCHANGED <<current_time, saved_frames, files,
                                         saveLog, exit_code, quit>>
                    [] OTHER ->
                          /\ pc' = "seek_loop"
                          /\ UNCHANGED <<current_time, saved_frames, files,
                                         saveLog, exit_code, quit>>
    /\ UNCHANGED <<setup, summary, out_of_range, tmp_exists, current_frame,
                   frame, next1, next2, raising>>

\* line 166
SeekedEscape1 ==
    /\ pc = "seek_esc1"
    /\ nreads' = nreads + 1
    /\ UNCHANGED renders
    /\ UNCHANGED nkeys
    /\ \E read \in BOOLEAN, b \in Bytes :
          /\ tty' = getch_tty(tty, read)
          /\ IF read
             THEN next1' = b /\ pc' = "seek_esc2" /\ UNCHANGED exit_code
             ELSE Exit(1) /\ UNCHANGED next1
    /\ UNCHANGED <<setup, output, tmp_exists, current_frame, ch, next2, current_time,
                   frame, ch, next2, raising, quit>>

\* lines 167-173
SeekedEscape2 ==
    /\ pc = "seek_esc2"
    /\ nreads' = nreads + 1
    /\ UNCHANGED renders
    /\ UNCHANGED nkeys
    /\ \E read \in BOOLEAN, b \in Bytes :
          /\ tty' = getch_tty(tty, read)
          /\ IF read
             THEN /\ next2' = b
                  /\ current_time' =
                        CASE DecodeEscape(next1, b) = "JumpForward" ->
                               SeekedForward(current_time, JumpTicks(framerate),
                                             DurationTicks)
                          [] DecodeEscape(next1, b) = "JumpBack" ->
                               SeekedBack(current_time, JumpTicks(framerate))
                          [] OTHER -> current_time
                  /\ pc' = "seek_loop"
                  /\ UNCHANGED exit_code
             ELSE Exit(1) /\ UNCHANGED <<current_time, next2>>
    /\ UNCHANGED <<setup, output, tmp_exists, current_frame, frame, ch, next1,
                   raising, quit>>

\* ----------------------------------------------------------- specification
Next ==
    \/ CheckArguments
    \/ GetDuration
    \/ ExtractAllFrames
    \/ IndexedFramerate
    \/ IndexedRender
    \/ IndexedKey
    \/ IndexedEscape1
    \/ IndexedEscape2
    \/ Finally
    \/ SeekedInit
    \/ SeekedRender
    \/ SeekedKey
    \/ SeekedEscape1
    \/ SeekedEscape2
    \/ Report

Spec == Init /\ [][Next]_vars

\* ------------------------------------------------------------ properties
\* a key other than ESC was read and dispatched by the Indexed loop
IndexedDispatch(k) == pc = "idx_key" /\ ch' = k

\* the escape sequence ESC [ b was read and dispatched by the Indexed loop
IndexedArrow(b) == pc = "idx_esc2" /\ next1 = "[" /\ next2' = b

\* a key other than ESC was read and dispatched by the Seeked loop
SeekedDispatch(k) == pc = "seek_key" /\ ch' = k

\* the escape sequence ESC [ b was read and dispatched by the Seeked loop
SeekedArrow(b) == pc = "seek_esc2" /\ next1 = "[" /\ next2' = b

\* C1: in the Indexed strategy with at least one frame, current_frame stays
\* in 0 .. total_frames - 1 whatever keys are typed and whatever frame rate
\* was probed
C1_IndexInRange ==
    total_frames >= 1 =>
        (0 <= current_frame /\ current_frame <= total_frames - 1)

\* the index was moved to the last frame of a list of several frames
C1_Witness ==
    /\ pc = "idx_loop"
    /\ total_frames > 1
    /\ current_frame = total_frames - 1
    /\ nkeys >= 2

\* C2: in the Seeked strategy with a positive frame rate, current_time stays
\* in [0, duration) whatever keys are typed
C2_TimeInRange ==
    (duration > ShortLimit /\ framerate[1] > 0) =>
        (0 <= current_time /\ current_time < DurationTicks)

\* the timestamp was moved to within 0.25 s of the end
C2_Witness ==
    /\ pc = "seek_loop"
    /\ framerate[1] > 0
    /\ current_time > 0
    /\ current_time + JumpTicks(framerate) >= DurationTicks

Clamp(x, lo, hi) == Max(lo, Min(hi, x))

\* C4 as stated, for sessions with a positive frame rate: every move of the
\* Seeked strategy sets current_time to the target clamped to [0, duration]
C4_MoveIsClamp ==
    [][ framerate[1] > 0 =>
        /\ SeekedDispatch(".") =>
              current_time' = Clamp(current_time + frame_duration, 0, DurationTicks)
        /\ SeekedArrow("C") =>
              current_time' = Clamp(current_time + JumpTicks(framerate), 0,
                                    DurationTicks)
        /\ SeekedDispatch(",") =>
              current_time' = Clamp(current_time - frame_duration, 0, DurationTicks)
        /\ SeekedArrow("D") =>
              current_time' = Clamp(current_time - JumpTicks(framerate), 0,
                                    DurationTicks) ]_vars

\* C4 as amended: a forward move of the Seeked strategy is made only when
\* its target is strictly below duration and otherwise leaves current_time
\* where it was; a backward move sets current_time to max(0, target)
C4_MoveIsGuarded ==
    [][ LET jump == JumpTicks(framerate)
        IN  /\ SeekedDispatch(".") =>
                  current_time' = IF current_time + frame_duration < DurationTicks
                                  THEN current_time + frame_duration
                                  ELSE current_time
            /\ SeekedArrow("C") =>
                  current_time' = IF current_time + jump < DurationTicks
                                  THEN current_time + jump
                                  ELSE current_time
            /\ SeekedDispatch(",") =>
                  current_time' = Max(0, current_time - frame_duration)
            /\ SeekedArrow("D") =>
                  current_time' = Max(0, current_time - jump) ]_vars

\* a JumpForward whose target is not below duration was handled away from 0
C4_Witness ==
    /\ pc = "seek_loop"
    /\ ch = "ESC" /\ next1 = "[" /\ next2 = "C"
    /\ framerate[1] > 0
    /\ current_time > 0
    /\ current_time + JumpTicks(framerate) >= DurationTicks

\* C5: when the process has ended, the directory made by mkdtemp is gone
C5_TempDirDeleted == pc = "exit" => ~tmp_exists

\* the name save_frame gives to the position p of this session
NameOf(p) ==
    IF duration <= ShortLimit
    THEN Filename(p * duration, total_frames)
    ELSE Filename(p, TimeDen(framerate))

\* C6: a session ended by Quit has printed the number of Save events handled
\* and one name per Save event, in the order of the events; the saved list
\* only ever grows at its end
C6_QuitSummary ==
    /\ [](( pc = "exit" /\ quit ) =>
            summary = <<Len(saveLog)>> \o [i \in 1..Len(saveLog) |-> NameOf(saveLog[i])])
    /\ [][ \/ saved_frames' = saved_frames
           \/ /\ Len(saved_frames') = Len(saved_frames) + 1
              /\ SubSeq(saved_frames', 1, Len(saved_frames)) = saved_frames ]_vars

\* Quit after two saves, the second at an earlier position than the first
C6_Witness ==
    /\ pc = "exit"
    /\ quit
    /\ Len(saveLog) = 2
    /\ saveLog[2] < saveLog[1]

\* positions at which a Save was handled
SavedPositions == {saveLog[i] : i \in 1..Len(saveLog)}

\* the current position of the session
Position == IF duration <= ShortLimit THEN current_frame ELSE current_time

\* a Save was handled and save_frame returned
SaveDone ==
    \/ IndexedDispatch("s") /\ pc' = "idx_loop"
    \/ SeekedDispatch("s") /\ pc' = "seek_loop"

\* C7: a Save at a position where a Save was handled before leaves the set
\* of files as it was, with one file of the position's name
C7_SaveTwice ==
    [][ (SaveDone /\ Position \in SavedPositions) =>
           /\ files' = files
           /\ Cardinality({f \in files' : f.name = NameOf(Position)}) = 1 ]_vars

\* two saves were made at one position
C7_Witness ==
    /\ Len(saved_frames) = 2
    /\ Len(saveLog) = 2
    /\ saveLog[1] = saveLog[2]
    /\ Cardinality(files) = 1

\* C8: after ESC exactly two more bytes are read; ESC [ C is JumpForward and
\* ESC [ D is JumpBack; any other pair changes neither the position nor the
\* saved list nor the files, does not quit, and the loop goes on
C8_EscapeDecoding ==
    [][ /\ (IndexedDispatch("ESC") \/ SeekedDispatch("ESC")) =>
              /\ pc' = (IF pc = "idx_key" THEN "idx_esc1" ELSE "seek_esc1")
              /\ UNCHANGED <<current_frame, current_time, saved_frames, files, quit>>
        /\ pc \in {"idx_esc1", "seek_esc1"} =>
              /\ nreads' = nreads + 1
              /\ next1' # "" =>
                    pc' = (IF pc = "idx_esc1" THEN "idx_esc2" ELSE "seek_esc2")
              /\ UNCHANGED <<current_frame, current_time, saved_frames, files, quit>>
        /\ pc \in {"idx_esc2", "seek_esc2"} =>
              /\ nreads' = nreads + 1
              /\ next2' # "" =>
                    pc' = (IF pc = "idx_esc2" THEN "idx_loop" ELSE "seek_loop")
              /\ UNCHANGED <<saved_frames, files, quit>>
              /\ (next2' # "" /\ ~(next1 = "[" /\ next2' \in {"C", "D"})) =>
                    UNCHANGED <<current_frame, current_time>>
        /\ IndexedArrow("C") =>
              current_frame' = IndexedJumpForward(current_frame, total_frames,
                                                  framerate)
        /\ IndexedArrow("D") =>
              current_frame' = IndexedJumpBack(current_frame, framerate)
        /\ SeekedArrow("C") =>
              current_time' = SeekedForward(current_time, JumpTicks(framerate),
                                            DurationTicks)
        /\ SeekedArrow("D") =>
              current_time' = SeekedBack(current_time, JumpTicks(framerate)) ]_vars

\* ESC q s was read away from position 0: no quit, no save, same position
C8_Witness ==
    /\ pc = "idx_loop"
    /\ ch = "ESC" /\ next1 = "q" /\ next2 = "s"
    /\ current_frame > 0
    /\ saved_frames = <<>>
    /\ ~quit

\* C9: a move back at position 0 and a move forward at the last index leave
\* the position where it is, and the loop goes on
C9_BoundsSelfTransitions ==
    [][ /\ (current_frame = 0 /\ (IndexedDispatch(",") \/ IndexedArrow("D"))) =>
              (current_frame' = 0 /\ pc' = "idx_loop")
        /\ (current_frame = total_frames - 1
              /\ (IndexedDispatch(".") \/ IndexedArrow("C"))) =>
              (current_frame' = current_frame /\ pc' = "idx_loop")
        /\ (current_time = 0 /\ (SeekedDispatch(",") \/ SeekedArrow("D"))) =>
              (current_time' = 0 /\ pc' = "seek_loop") ]_vars

\* C10: after Quit the temporary directory is deleted before the summary is
\* printed, the summary is printed as the process ends with code 0, and no
\* byte is read
C10_QuitOrder ==
    /\ [](summary # <<>> => ~tmp_exists)
    /\ []((quit /\ pc = "exit") => (summary # <<>> /\ exit_code = 0))
    /\ [][ quit => nreads' = nreads ]_vars
    /\ [][ (quit /\ summary' # summary) =>
              (~tmp_exists /\ pc' = "exit" /\ exit_code' = 0) ]_vars

\* an Indexed session ended by Quit: directory gone, summary printed
C10_Witness ==
    /\ pc = "exit"
    /\ quit
    /\ temp_dir = "tmp"
    /\ ~tmp_exists
    /\ summary # <<>>
    /\ exit_code = 0

\* positions of the script inside the loop of the Indexed strategy
IndexedLoop == {"idx_loop", "idx_key", "idx_esc1", "idx_esc2"}

\* positions of the script inside the loop of the Seeked strategy
SeekedLoop == {"seek_loop", "seek_key", "seek_esc1", "seek_esc2"}

\* C11: the frame rate a session navigates with is strictly positive, and
\* so is frame_duration in the Seeked strategy, whatever the probe printed
C11_RatePositive ==
    /\ pc \in IndexedLoop \cup SeekedLoop => framerate[1] > 0
    /\ pc \in SeekedLoop => frame_duration > 0

\* the rate the claim expects for a probe output: N/D for "N/D", the number
\* for a plain number, the default otherwise
ExpectedRate(out) ==
    CASE out.kind = "ratio" /\ out.den > 0 -> <<out.num, out.den>>
      [] out.kind = "ratio" /\ out.den < 0 -> <<-out.num, -out.den>>
      [] out.kind = "plain" -> <<out.num, out.den>>
      [] OTHER -> <<DefaultRate, 1>>

\* C12: the frame-rate probe yields the expected rate for some output of
\* the probe and the script goes on into the navigation loop: it neither
\* exits nor raises
C12_ProbeNeverEnds ==
    [][ /\ pc = "idx_rate" =>
              /\ pc' = "idx_loop"
              /\ \E out \in ProbeOutputs : framerate' = ExpectedRate(out)
        /\ pc = "seek_init" =>
              /\ pc' = "seek_loop"
              /\ \E out \in ProbeOutputs : framerate' = ExpectedRate(out) ]_vars

\* C13: every call of getch, returning or raising, leaves the terminal in
\* the mode it found, so the terminal is never raw between two calls nor
\* when the process has ended
C13_TerminalRestored ==
    /\ [](tty = "cooked")
    /\ [][ nreads' # nreads => tty' = tty ]_vars

\* the first read of a Seeked session raised and the process has ended
C13_Witness ==
    /\ pc = "exit"
    /\ exit_code = 1
    /\ duration > ShortLimit
    /\ nreads = 1
    /\ ch = ""
    /\ tty = "cooked"

\* C14: the strategy is chosen once, from the probed duration: Indexed for
\* duration <= 120 and Seeked for duration > 120; a Seeked session makes no
\* temporary directory and an Indexed session never calls get_frame
C14_StrategySelection ==
    /\ []( /\ pc \in IndexedLoop \cup {"extract", "idx_rate", "finally"} =>
                 duration <= ShortLimit
           /\ pc \in SeekedLoop \cup {"seek_init"} => duration > ShortLimit
           /\ duration > ShortLimit => (~tmp_exists /\ temp_dir = "unbound")
           /\ duration <= ShortLimit => nextracts = 0 )
    /\ [][ (pc = "get_duration" /\ pc' # "exit") =>
              /\ pc' = "extract" <=> duration' <= ShortLimit
              /\ pc' = "seek_init" <=> duration' > ShortLimit ]_vars
    /\ [][ pc # "get_duration" => duration' = duration ]_vars

\* a video of exactly 120 s is in the Indexed loop, its directory on disk
C14_Witness ==
    /\ pc = "idx_key"
    /\ duration = ShortLimit
    /\ tmp_exists
    /\ nextracts = 0

\* C15: when the bulk extraction yields no frame, the Indexed session
\* prints "Frame index out of range" and leaves the loop with nothing
\* rendered, no key read and nothing saved, and the directory is deleted
C15_NoFrames ==
    (temp_dir = "tmp" /\ total_frames = 0) =>
        /\ pc \in {"idx_rate", "idx_loop", "finally", "report", "exit"}
        /\ nrenders = 0
        /\ nreads = 0
        /\ saved_frames = <<>>
        /\ pc \in {"finally", "report", "exit"} => out_of_range
        /\ pc \in {"report", "exit"} => ~tmp_exists
        /\ pc = "exit" => summary = <<0>>

\* a session without frames has ended
C15_Witness ==
    /\ pc = "exit"
    /\ temp_dir = "tmp"
    /\ total_frames = 0
    /\ out_of_range
    /\ ~tmp_exists

\* C16: in the Seeked strategy a failed get_frame ends the process at once
\* with a non-zero exit code; the failing step changes neither the position
\* nor the saved list nor the files, and afterwards no key is read and
\* nothing changes
C16_ExtractionFatal ==
    /\ [](failed_extract => (pc = "exit" /\ exit_code # 0))
    /\ [][ (~failed_extract /\ failed_extract') =>
              /\ pc = "seek_loop"
              /\ UNCHANGED <<current_time, saved_frames, files, summary,
                             nreads, nkeys>> ]_vars
    /\ [][ failed_extract =>
              UNCHANGED <<current_time, saved_frames, files, summary,
                          nreads, nkeys>> ]_vars

\* get_frame failed at a timestamp the session had moved to
C16_Witness ==
    /\ failed_extract
    /\ pc = "exit"
    /\ exit_code = 1
    /\ current_time > 0
    /\ nkeys >= 1

\* the bytes that are commands when read at the head of a loop
Commands == {"q", "s", ".", ",", "ESC"}

\* a byte that is no command was read at the head of a loop, or the two
\* bytes after ESC were read and are not [ C or [ D
IgnoredEvent ==
    \/ pc \in {"idx_key", "seek_key"} /\ ch' \in Bytes \ Commands
    \/ /\ pc \in {"idx_esc2", "seek_esc2"}
       /\ next2' \in Bytes
       /\ ~(next1 = "[" /\ next2' \in {"C", "D"})

\* a step or a jump, forward or back, was handled
NavigationEvent ==
    \/ \E k \in {".", ","} : IndexedDispatch(k) \/ SeekedDispatch(k)
    \/ \E b \in {"C", "D"} : IndexedArrow(b) \/ SeekedArrow(b)

\* C17: a Save leaves the position alone and adds one name at the end of
\* the saved list; an Ignored event changes neither the position nor the
\* saved list nor the files; a navigation event changes neither the saved
\* list nor the files
C17_FrameConditions ==
    [][ /\ SaveDone =>
              /\ UNCHANGED <<current_frame, current_time>>
              /\ Len(saved_frames') = Len(saved_frames) + 1
              /\ SubSeq(saved_frames', 1, Len(saved_frames)) = saved_frames
        /\ IgnoredEvent =>
              UNCHANGED <<current_frame, current_time, saved_frames, files>>
        /\ NavigationEvent => UNCHANGED <<saved_frames, files>> ]_vars

\* a Save was handled at a timestamp the session had moved to
C17_Witness ==
    /\ pc = "seek_loop"
    /\ ch = "s"
    /\ current_time > 0
    /\ Len(saved_frames) = 1
    /\ saveLog = <<current_time>>

\* C18: when a key is about to be read at the head of a loop, the frame of
\* the current position has been rendered once in this iteration, i.e. once
\* more often than keys were read; elsewhere in the loop the renders equal
\* the keys read.  In the Seeked strategy every render is one get_frame.
C18_RenderBeforeKey ==
    /\ pc = "idx_key" => (nrenders = nkeys + 1 /\ nextracts = 0)
    /\ pc \in {"idx_loop", "idx_esc1", "idx_esc2"} => nrenders = nkeys
    /\ pc = "seek_key" =>
          (nrenders = nkeys + 1 /\ nextracts = nkeys + 1 /\ frame = current_time)
    /\ pc \in {"seek_loop", "seek_esc1", "seek_esc2"} =>
          (nrenders = nkeys /\ nextracts = nkeys)

\* after a Save and an Ignored key the frame was extracted and rendered again
C18_Witness ==
    /\ pc = "seek_key"
    /\ nkeys = 2
    /\ Len(saved_frames) = 1
    /\ current_time = 0
    /\ nextracts = 3
    /\ nrenders = 3

\* C19: "Frame index out of range" is printed only when extraction produced
\* no frame and before any key was read; with at least one frame, and after
\* any key event, the index test of the Indexed loop succeeds.
C19_OutOfRangeOnlyAtStart ==
    /\ out_of_range => (total_frames = 0 /\ nkeys = 0 /\ nrenders = 0)
    /\ (pc = "idx_loop" /\ nkeys > 0) => InRange(current_frame, total_frames)

\* the message was printed on the first iteration and the loop was left
C19_Witness ==
    /\ pc = "finally"
    /\ out_of_range
    /\ total_frames = 0
    /\ current_frame = 0
    /\ nkeys = 0

\* what the last render showed: the extracted file of the current index, or
\* the frame extracted at the current timestamp
Rendered ==
    IF duration <= ShortLimit THEN all_frames[current_frame + 1] ELSE current_time

\* C20: a Save stores the frame rendered just before the key, under the name
\* of that position.  Seeked: when the key is read the frame held is the one
\* extracted at current_time, and the file written has these bytes and the
\* name built from current_time.  Indexed: the file copied is
\* all_frames[current_frame], named from current_frame/total_frames*duration;
\* Saves at different indices copy different extracted files.
C20_SaveStoresRendered ==
    /\ [](pc = "seek_key" => frame = current_time)
    /\ [](duration <= ShortLimit =>
             \A p, q \in SavedPositions :
                all_frames[p + 1] = all_frames[q + 1] => p = q)
    /\ [][ SaveDone =>
             /\ [name |-> NameOf(Position), data |-> Rendered] \in files'
             /\ saved_frames'[Len(saved_frames')] = NameOf(Position)
             /\ \A f \in files' :
                   f.name = NameOf(Position) => f.data = Rendered ]_vars

\* two Saves at different indices of one Indexed session have left two files
\* copied from two different extracted frames
C20_Witness ==
    /\ pc = "idx_loop"
    /\ ch = "s"
    /\ Len(saveLog) = 2
    /\ saveLog[1] # saveLog[2]
    /\ Len(saved_frames) = 2
    /\ Cardinality({f.data : f \in files}) = 2
    /\ [name |-> NameOf(current_frame), data |-> all_frames[current_frame + 1]]
          \in files

====
